---------------------------- MODULE Spec2Model ----------------------------
(***************************************************************************)
(* CodexGlyph Engine v2.6 (src/codexglyph_v26_full.py): the word parser    *)
(* CodexGlyphParser, its lexical tables, the resonance calculator, the     *)
(* V+CC shadow detector, the component extractor, the Greek compound       *)
(* matcher, the four rendering levels, the document statistics of          *)
(* analyze_document and the report of generate_report.                     *)
(*                                                                         *)
(* A Python str is a sequence of one-character strings.  Text that the     *)
(* code only copies (labels, meanings, fixed message parts) is kept as one *)
(* element of the sequence.  The arrow U+2192 of the resonance string is   *)
(* written "->" and the middle dot of the labels ".".  The characters of   *)
(* the model are ASCII: letters of both cases, digits, the four characters *)
(* parse_word keeps (- _ ~ '), the blank and punctuation.                  *)
(***************************************************************************)
EXTENDS Integers, Sequences, FiniteSets, TLC

(* ----------------------------------------------------------------------- *)
(* Python str and list primitives used by the parser                       *)
(* ----------------------------------------------------------------------- *)

LowerLetters ==
  <<"a","b","c","d","e","f","g","h","i","j","k","l","m",
    "n","o","p","q","r","s","t","u","v","w","x","y","z">>

UpperLetters ==
  <<"A","B","C","D","E","F","G","H","I","J","K","L","M",
    "N","O","P","Q","R","S","T","U","V","W","X","Y","Z">>

DigitChars == <<"0","1","2","3","4","5","6","7","8","9">>

Range(s) == {s[i] : i \in DOMAIN s}

(* Python None; "if x" is false for None and for the empty string. *)
None == <<"None">>

Truthy(x) == x # None /\ x # <<>>

(* c.isalpha(), c.isalnum(), c.isspace() on the characters of the model *)
LowerSet == Range(LowerLetters)

UpperSet == Range(UpperLetters)

DigitSet == Range(DigitChars)

isalpha(c) == c \in LowerSet \/ c \in UpperSet

isalnum(c) == isalpha(c) \/ c \in DigitSet

isspace(c) == c = " "

upper_char(c) ==
  IF c \in LowerSet
    THEN UpperLetters[CHOOSE i \in DOMAIN LowerLetters : LowerLetters[i] = c]
    ELSE c

lower_char(c) ==
  IF c \in UpperSet
    THEN LowerLetters[CHOOSE i \in DOMAIN UpperLetters : UpperLetters[i] = c]
    ELSE c

(* s.upper(), s.lower() *)
upper(s) == [i \in DOMAIN s |-> upper_char(s[i])]

lower(s) == [i \in DOMAIN s |-> lower_char(s[i])]

(* s.strip(): whitespace removed at both ends *)
RECURSIVE lstrip(_)
lstrip(s) == IF s # <<>> /\ isspace(Head(s)) THEN lstrip(Tail(s)) ELSE s

RECURSIVE rstrip(_)
rstrip(s) ==
  IF s # <<>> /\ isspace(s[Len(s)]) THEN rstrip(SubSeq(s, 1, Len(s) - 1)) ELSE s

strip(s) == rstrip(lstrip(s))

(* s.startswith(p), s.endswith(p), p in s, s[n:] *)
startswith(s, p) == Len(p) <= Len(s) /\ SubSeq(s, 1, Len(p)) = p

endswith(s, p) == Len(p) <= Len(s) /\ SubSeq(s, Len(s) - Len(p) + 1, Len(s)) = p

contains(s, p) ==
  \E i \in 0..(Len(s) - Len(p)) : SubSeq(s, i + 1, i + Len(p)) = p

slice_from(s, n) == SubSeq(s, n + 1, Len(s))

(* str(n) for n >= 0, and int(d) for a digit character *)
RECURSIVE str(_)
str(n) ==
  IF n < 10 THEN <<DigitChars[n + 1]>>
  ELSE str(n \div 10) \o <<DigitChars[(n % 10) + 1]>>

int(d) == (CHOOSE i \in DOMAIN DigitChars : DigitChars[i] = d) - 1

(* sep.join(parts) *)
RECURSIVE join(_, _)
join(sep, parts) ==
  IF parts = <<>> THEN <<>>
  ELSE IF Len(parts) = 1 THEN parts[1]
  ELSE parts[1] \o sep \o join(sep, Tail(parts))

(* The number of occurrences of the character c in s: s.count(c) *)
count(s, c) == Cardinality({i \in DOMAIN s : s[i] = c})

(* The index of the first element of seq that passes Test, 0 when none does: *)
(* "for x in seq: if test(x): ...; break"                                    *)
FirstIndex(seq, Test(_)) ==
  LET I == {i \in DOMAIN seq : Test(seq[i])}
  IN  IF I = {} THEN 0 ELSE CHOOSE i \in I : \A j \in I : i <= j

(* sorted(keys, key=len, reverse=True): by decreasing length, and stable:   *)
(* entries of equal length keep the order they have in keys.                *)
RECURSIVE by_len_from(_, _)
by_len_from(keys, n) ==
  IF n = 0 THEN <<>>
  ELSE SelectSeq(keys, LAMBDA k : Len(k) = n) \o by_len_from(keys, n - 1)

sorted_by_len_reverse(keys) ==
  LET lens == {Len(keys[i]) : i \in DOMAIN keys}
      longest == IF lens = {} THEN 0 ELSE CHOOSE n \in lens : \A m \in lens : m <= n
  IN  by_len_from(keys, longest)

(* The keys of a table, in dictionary order, and the entry of a key *)
keys_of(table) == [i \in DOMAIN table |-> table[i].key]

has_key(table, k) == \E i \in DOMAIN table : table[i].key = k

entry_of(table, k) == table[CHOOSE i \in DOMAIN table : table[i].key = k]

(* ----------------------------------------------------------------------- *)
(* Lexical tables                                                          *)
(* ----------------------------------------------------------------------- *)

(* TAP_ROOT: letter -> value (the label of each entry is never read). *)
TAP_ROOT ==
    "A" :> 1 @@ "B" :> 2 @@ "C" :> 3 @@ "D" :> 4 @@ "E" :> 5 @@ "F" :> 6 @@ "G" :> 7 @@ "H" :> 8 @@
    "I" :> 9 @@ "J" :> 10 @@ "K" :> 11 @@ "L" :> 12 @@ "M" :> 13 @@ "N" :> 14 @@ "O" :> 15 @@ "P" :> 16 @@
    "Q" :> 17 @@ "R" :> 18 @@ "S" :> 19 @@ "T" :> 20 @@ "U" :> 21 @@ "V" :> 22 @@ "W" :> 23 @@ "X" :> 24 @@
    "Y" :> 25 @@ "Z" :> 26

(* MASTER_NUMBERS: value -> label; the middle dot of the labels is written '.' *)
MASTER_NUMBERS ==
    11 :> "Gateway.Luminator"
  @@ 22 :> "MasterBuilder"
  @@ 33 :> "MasterTeacher.Healer"
  @@ 44 :> "MasterFoundation"
  @@ 55 :> "MasterChange.Freedom"
  @@ 66 :> "MasterNurturer.Harmonizer"
  @@ 77 :> "MasterMystic.Seeker"
  @@ 88 :> "MasterManifestor.Abundance"
  @@ 99 :> "MasterHumanitarian.Completion"

(* VCC_PREFIXES, in dictionary order; etymology is never read. *)
VCC_PREFIXES ==
  <<
    [key |-> <<"I","N">>, meaning |-> "into/within", type |-> "positional"],
    [key |-> <<"E","X">>, meaning |-> "out/from", type |-> "positional"],
    [key |-> <<"A","T">>, meaning |-> "at/toward", type |-> "positional"],
    [key |-> <<"O","B">>, meaning |-> "against/opposite", type |-> "positional"],
    [key |-> <<"O","P">>, meaning |-> "against/toward", type |-> "positional"],
    [key |-> <<"A","D">>, meaning |-> "toward/to", type |-> "positional"],
    [key |-> <<"A","B">>, meaning |-> "away from", type |-> "positional"],
    [key |-> <<"I","M">>, meaning |-> "into", type |-> "positional"],
    [key |-> <<"I","L">>, meaning |-> "into", type |-> "positional"],
    [key |-> <<"I","R">>, meaning |-> "into", type |-> "positional"],
    [key |-> <<"I","F">>, meaning |-> "into", type |-> "positional"],
    [key |-> <<"U","N">>, meaning |-> "liberation/reversal", type |-> "operational"]
  >>

(* OTHER_PREFIXES, in dictionary order. *)
OTHER_PREFIXES ==
  <<
    [key |-> <<"R","E">>, meaning |-> "again/back/renewal"],
    [key |-> <<"B","E">>, meaning |-> "causative/make"],
    [key |-> <<"D","E">>, meaning |-> "removal/down"],
    [key |-> <<"B","I">>, meaning |-> "by/at/near"],
    [key |-> <<"U","N","D","E","R">>, meaning |-> "beneath (UN+D+ER)"],
    [key |-> <<"O","V","E","R">>, meaning |-> "above (O+V+ER)"],
    [key |-> <<"C","O","N">>, meaning |-> "together/with"],
    [key |-> <<"C","O","M">>, meaning |-> "together/with"],
    [key |-> <<"S","U","B">>, meaning |-> "under/below"],
    [key |-> <<"S","U","P">>, meaning |-> "under"],
    [key |-> <<"P","R","E">>, meaning |-> "before/prior"],
    [key |-> <<"P","R","O">>, meaning |-> "forward/forth"],
    [key |-> <<"P","O","S","T">>, meaning |-> "after/behind"],
    [key |-> <<"A","N","T","I">>, meaning |-> "against/opposite"],
    [key |-> <<"C","O","U","N","T","E","R">>, meaning |-> "against/opposite"],
    [key |-> <<"S","U","P","E","R">>, meaning |-> "above/beyond"],
    [key |-> <<"I","N","T","E","R">>, meaning |-> "between/among"],
    [key |-> <<"T","R","A","N","S">>, meaning |-> "across/through"],
    [key |-> <<"C","I","R","C","U","M">>, meaning |-> "around"],
    [key |-> <<"P","E","R">>, meaning |-> "through/thoroughly"],
    [key |-> <<"E","X","T","R","A">>, meaning |-> "outside/beyond"],
    [key |-> <<"I","N","T","R","A">>, meaning |-> "within"],
    [key |-> <<"W","I","T","H">>, meaning |-> "together/against"],
    [key |-> <<"O","U","T">>, meaning |-> "beyond/external"],
    [key |-> <<"D","O","W","N">>, meaning |-> "downward"],
    [key |-> <<"U","P">>, meaning |-> "upward"],
    [key |-> <<"F","O","R">>, meaning |-> "away/prohibition"],
    [key |-> <<"F","O","R","E">>, meaning |-> "before/front"],
    [key |-> <<"A","F","T","E","R">>, meaning |-> "following"],
    [key |-> <<"M","I","D">>, meaning |-> "middle"],
    [key |-> <<"D","I","S">>, meaning |-> "apart/away"],
    [key |-> <<"E","N">>, meaning |-> "cause to be in"],
    [key |-> <<"E","M">>, meaning |-> "cause to be in"],
    [key |-> <<"N","O","N">>, meaning |-> "not/without"],
    [key |-> <<"M","I","S">>, meaning |-> "wrong/bad"],
    [key |-> <<"M","A","L">>, meaning |-> "bad/evil"],
    [key |-> <<"H","Y","P","E","R">>, meaning |-> "over/excessive"],
    [key |-> <<"H","Y","P","O">>, meaning |-> "under/below"],
    [key |-> <<"M","E","T","A">>, meaning |-> "beyond/change"],
    [key |-> <<"P","A","R","A">>, meaning |-> "beside/beyond"],
    [key |-> <<"P","R","O","T","O">>, meaning |-> "first/original"],
    [key |-> <<"S","Y","N">>, meaning |-> "together"],
    [key |-> <<"S","Y","M">>, meaning |-> "together"],
    [key |-> <<"N","E","O">>, meaning |-> "new"],
    [key |-> <<"P","A","L","E","O">>, meaning |-> "old/ancient"],
    [key |-> <<"A","U","T","O">>, meaning |-> "self"],
    [key |-> <<"M","O","N","O">>, meaning |-> "one/single"],
    [key |-> <<"U","N","I">>, meaning |-> "one/single"],
    [key |-> <<"M","U","L","T","I">>, meaning |-> "many"],
    [key |-> <<"P","O","L","Y">>, meaning |-> "many"],
    [key |-> <<"S","E","M","I">>, meaning |-> "half"],
    [key |-> <<"O","M","N","I">>, meaning |-> "all"],
    [key |-> <<"D","I","A">>, meaning |-> "through/across"],
    [key |-> <<"E","P","I">>, meaning |-> "upon/over"],
    [key |-> <<"A","M","P","H","I">>, meaning |-> "both/around"],
    [key |-> <<"P","E","R","I">>, meaning |-> "around/near"],
    [key |-> <<"E">>, meaning |-> "out"], [key |-> <<"A">>, meaning |-> "to/toward or not"]
  >>

(* FULL_WORD_SUFFIXES, in dictionary order. *)
FULL_WORD_SUFFIXES ==
  <<
    [key |-> <<"M","E","N","T">>, meaning |-> "the mind"],
    [key |-> <<"H","O","O","D">>, meaning |-> "territory/covering"],
    [key |-> <<"S","H","I","P">>, meaning |-> "vessel/journey"],
    [key |-> <<"D","O","M">>, meaning |-> "dominion/rule"],
    [key |-> <<"N","E","S","S">>, meaning |-> "projection/manifestation"],
    [key |-> <<"A","B","L","E">>, meaning |-> "ability/capable"],
    [key |-> <<"I","B","L","E">>, meaning |-> "is-ability"],
    [key |-> <<"F","U","L">>, meaning |-> "full of"],
    [key |-> <<"L","E","S","S">>, meaning |-> "without/lacking"]
  >>

(* STANCE_SUFFIXES, in dictionary order. *)
STANCE_SUFFIXES ==
  <<
    [key |-> <<"I","S","H">>, meaning |-> "positioned toward"],
    [key |-> <<"I","S","T">>, meaning |-> "practitioner/believer"],
    [key |-> <<"I","S","M">>, meaning |-> "system/doctrine"],
    [key |-> <<"Y">>, meaning |-> "positioned in"]
  >>

(* TRUE_OPERATORS, in list order. *)
TRUE_OPERATORS ==
  <<
    <<"E","R">>, <<"I","N","G">>, <<"E","D">>, <<"T","I","O","N">>, <<"I","O","N">>,
    <<"S","I","O","N">>, <<"A","L">>, <<"L","Y">>, <<"E","S">>, <<"S">>, <<"E","S","T">>,
    <<"A","G","E">>, <<"A","N","C","E">>, <<"E","N","C","E">>, <<"A","N","T">>,
    <<"E","N","T">>, <<"A","R","Y">>, <<"O","R","Y">>, <<"A","T","E">>, <<"E","E">>,
    <<"E","T","T","E">>, <<"U","R","E">>, <<"T","H">>, <<"T","R","Y">>, <<"I","C">>,
    <<"I","C","A","L">>, <<"I","L","E">>, <<"I","N","E">>, <<"O","I","D">>,
    <<"O","S","E">>, <<"O","U","S">>, <<"W","A","R","D">>, <<"E","N">>, <<"F","Y">>,
    <<"I","F","Y">>, <<"I","Z","E">>, <<"I","S","E">>, <<"A","T","I","V","E">>,
    <<"I","T","I","O","N">>
  >>

(* COMMON_ROOTS, in dictionary order. *)
COMMON_ROOTS ==
  <<
    [key |-> <<"J","E","C","T">>, meaning |-> "throw/cast"],
    [key |-> <<"T","E","N","T">>, meaning |-> "stretch/aim"],
    [key |-> <<"T","I","O","N">>, meaning |-> "tension/stretching"],
    [key |-> <<"T","E","N","T","I","O","N">>, meaning |-> "stretching state"],
    [key |-> <<"P","R","E","S","S">>, meaning |-> "press/push"],
    [key |-> <<"C","E","S","S">>, meaning |-> "go/yield/proceed"],
    [key |-> <<"C","E","D","E">>, meaning |-> "go/yield"],
    [key |-> <<"C","E","I","V","E">>, meaning |-> "take/receive"],
    [key |-> <<"C","E","P","T">>, meaning |-> "take/seize"],
    [key |-> <<"G","R","E","S","S">>, meaning |-> "step/walk"],
    [key |-> <<"S","E","R","V">>, meaning |-> "serve/watch/keep"],
    [key |-> <<"F","O","R","M">>, meaning |-> "shape/structure"],
    [key |-> <<"P","O","R","T">>, meaning |-> "carry"],
    [key |-> <<"V","A","N","C","E">>, meaning |-> "advance/move"],
    [key |-> <<"P","E","R","I">>, meaning |-> "try/test"],
    [key |-> <<"F","I","R","M">>, meaning |-> "strong/fixed"]
  >>

(* GREEK_ROOTS, in dictionary order (the meanings are never read). *)
GREEK_ROOTS ==
  <<
    <<"B","I","O">>, <<"P","S","Y","C","H">>, <<"G","E">>, <<"G","E","O">>,
    <<"T","H","E">>, <<"T","H","E","O">>, <<"P","H","O","T","O">>, <<"D","E","M","O">>,
    <<"M","O","N">>, <<"M","O","N","O">>, <<"A","R","I","S","T","O">>,
    <<"B","U","R","E","A","U">>, <<"T","E","L","E">>, <<"P","H","O","N">>
  >>

(* GREEK_SUFFIXES, in dictionary order (the meanings are never read). *)
GREEK_SUFFIXES ==
  <<
    <<"L","O","G","Y">>, <<"G","R","A","P","H","Y">>, <<"A","R","C","H","Y">>,
    <<"C","R","A","C","Y">>, <<"O","L","O","G","Y">>
  >>

(* SEMANTIC_SHADOWS: lowercase word -> explanatory string. *)
SEMANTIC_SHADOWS ==
  <<
    [key |-> <<"g","o","v","e","r","n","m","e","n","t">>,
     text |-> "govern-ment [govern the mind]"],
    [key |-> <<"i","n","f","o","r","m","a","t","i","o","n">>,
     text |-> "in-formation [forming within/control]"],
    [key |-> <<"r","e","p","r","e","s","e","n","t","a","t","i","v","e">>,
     text |-> "re-present-ative [false re-presentation]"]
  >>

(* TECHNICAL_FIELDS, in dictionary order: field -> list of terms. *)
TECHNICAL_FIELDS ==
  <<
    [field |-> "mathematics", terms |-> <<
       <<"a","d","d","i","t","i","o","n">>,
       <<"s","u","b","t","r","a","c","t","i","o","n">>,
       <<"e","q","u","a","t","i","o","n">>, <<"i","n","t","e","g","e","r">> >>],
    [field |-> "medicine", terms |-> <<
       <<"i","n","f","e","c","t","i","o","n">>, <<"i","n","j","e","c","t","i","o","n">>,
       <<"a","f","f","l","i","c","t","i","o","n">>,
       <<"p","r","e","s","c","r","i","p","t","i","o","n">>,
       <<"o","b","s","e","r","v","a","t","i","o","n">> >>],
    [field |-> "law", terms |-> <<
       <<"o","b","j","e","c","t","i","o","n">>,
       <<"i","n","j","u","n","c","t","i","o","n">>,
       <<"a","f","f","i","d","a","v","i","t">>, <<"i","n","d","i","c","t","m","e","n","t">> >>],
    [field |-> "science", terms |-> <<
       <<"o","b","s","e","r","v","a","t","i","o","n">>,
       <<"e","x","p","e","r","i","m","e","n","t">>,
       <<"h","y","p","o","t","h","e","s","i","s">>, <<"a","n","a","l","y","s","i","s">> >>],
    [field |-> "technology", terms |-> <<
       <<"a","p","p","l","i","c","a","t","i","o","n">>,
       <<"i","n","t","e","r","f","a","c","e">>, <<"a","l","g","o","r","i","t","h","m">>,
       <<"i","n","s","t","r","u","c","t","i","o","n">> >>]
  >>

(* ----------------------------------------------------------------------- *)
(* __init__: the merged prefix table and its longest-first order           *)
(* ----------------------------------------------------------------------- *)


(* A merged table that leaves out the VCC-capable prefixes *)
all_prefixes_other_only == keys_of(OTHER_PREFIXES)

(* {**VCC_PREFIXES, **OTHER_PREFIXES}: the two tables share no key *)
all_prefixes == keys_of(VCC_PREFIXES) \o keys_of(OTHER_PREFIXES)

(* A prefix order left in the order of the tables *)
prefix_order_unsorted == all_prefixes

prefix_order == sorted_by_len_reverse(all_prefixes)

(* ----------------------------------------------------------------------- *)
(* calculate_resonance                                                     *)
(* ----------------------------------------------------------------------- *)

(* clean = ''.join(c for c in word.upper() if c.isalpha()) *)
alpha_clean(word) == SelectSeq(upper(word), isalpha)

(* TAP_ROOT.get(c, (0, ""))[0] *)
tap_value(c) == IF c \in DOMAIN TAP_ROOT THEN TAP_ROOT[c] ELSE 0

RECURSIVE letter_sum(_)
letter_sum(clean) ==
  IF clean = <<>> THEN 0 ELSE tap_value(Head(clean)) + letter_sum(Tail(clean))

(* sum(int(d) for d in str(reduced)) *)
RECURSIVE sum_digits(_)
sum_digits(ds) == IF ds = <<>> THEN 0 ELSE int(Head(ds)) + sum_digits(Tail(ds))

digit_sum(reduced) == sum_digits(str(reduced))


(* A loop condition that does not preserve the master numbers *)
must_reduce_ignore_master(reduced) == reduced > 9

(* The condition of the reduction loop *)
must_reduce(reduced) == reduced > 9 /\ reduced \notin DOMAIN MASTER_NUMBERS

RECURSIVE reduce_loop(_)
reduce_loop(reduced) ==
  IF must_reduce(reduced) THEN reduce_loop(digit_sum(reduced)) ELSE reduced

master_label(n) ==
  IF n \in DOMAIN MASTER_NUMBERS THEN <<" ", "(", MASTER_NUMBERS[n], ")">> ELSE <<>>

(* The string returned for a total and its reduced value *)
resonance_string(tot, red) ==
  IF tot = red THEN str(tot) \o master_label(tot)
  ELSE str(tot) \o <<"->">> \o str(red) \o master_label(red)

calculate_resonance(w) ==
  LET tot == letter_sum(alpha_clean(w))
  IN  resonance_string(tot, reduce_loop(tot))

(* ----------------------------------------------------------------------- *)
(* detect_vcc                                                              *)
(* ----------------------------------------------------------------------- *)

Vowels == {"A", "E", "I", "O", "U"}

(* A match condition without the test for a vowel *)
vcc_match_any_letter(word_upper, prefix) ==
  /\ startswith(word_upper, prefix)
  /\ Len(word_upper) > Len(prefix)
  /\ LET base_start == slice_from(word_upper, Len(prefix))
     IN  /\ base_start # <<>>
         /\ isalpha(base_start[1])

(* The test of one table entry in the loop of detect_vcc *)
vcc_match(word_upper, prefix) ==
  /\ startswith(word_upper, prefix)
  /\ Len(word_upper) > Len(prefix)
  /\ LET base_start == slice_from(word_upper, Len(prefix))
     IN  /\ base_start # <<>>
         /\ isalpha(base_start[1])
         /\ base_start[1] \notin Vowels

detect_vcc(w) ==
  LET word_upper == upper(w)
      i == FirstIndex(VCC_PREFIXES, LAMBDA e : vcc_match(word_upper, e.key))
  IN  IF i = 0
        THEN [is_vcc |-> FALSE, prefix |-> None, separator |-> "None"]
        ELSE [is_vcc |-> TRUE,
              prefix |-> VCC_PREFIXES[i].key,
              separator |-> IF VCC_PREFIXES[i].type = "positional"
                              THEN "tilde" ELSE "hyphen"]

(* ----------------------------------------------------------------------- *)
(* extract_components                                                      *)
(* ----------------------------------------------------------------------- *)

full_word_order == sorted_by_len_reverse(keys_of(FULL_WORD_SUFFIXES))

stance_order == sorted_by_len_reverse(keys_of(STANCE_SUFFIXES))

operator_order == sorted_by_len_reverse(TRUE_OPERATORS)

(* A prefix loop that asks for two characters after the prefix *)
extract_prefix_two_after(word_upper) ==
  LET i == FirstIndex(prefix_order,
                      LAMBDA p : startswith(word_upper, p) /\ Len(word_upper) > Len(p) + 1)
  IN  IF i = 0 THEN [prefix |-> None, base |-> word_upper]
      ELSE [prefix |-> prefix_order[i],
            base |-> slice_from(word_upper, Len(prefix_order[i]))]

(* The prefix loop: the first entry of prefix_order the word starts with *)
(* and is longer than                                                    *)
extract_prefix(word_upper) ==
  LET i == FirstIndex(prefix_order,
                      LAMBDA p : startswith(word_upper, p) /\ Len(word_upper) > Len(p))
  IN  IF i = 0 THEN [prefix |-> None, base |-> word_upper]
      ELSE [prefix |-> prefix_order[i],
            base |-> slice_from(word_upper, Len(prefix_order[i]))]

(* A suffix loop that lets the suffix take the whole of the base *)
suffix_pass_whole_base(base, order) ==
  LET i == FirstIndex(order, LAMBDA s : endswith(base, s) /\ Len(base) >= Len(s))
  IN  IF i = 0 THEN [suffix |-> None, base |-> base]
      ELSE [suffix |-> order[i],
            base |-> SubSeq(base, 1, Len(base) - Len(order[i]))]

(* One suffix loop over the entries of a table, longest first *)
suffix_pass(base, order) ==
  LET i == FirstIndex(order, LAMBDA s : endswith(base, s) /\ Len(base) > Len(s))
  IN  IF i = 0 THEN [suffix |-> None, base |-> base]
      ELSE [suffix |-> order[i],
            base |-> SubSeq(base, 1, Len(base) - Len(order[i]))]


(* An extractor that tries the bare operators before the suffix tables *)
extract_components_operators_first(w) ==
  LET p  == extract_prefix(upper(w))
      s1 == suffix_pass(p.base, operator_order)
      s2 == IF ~Truthy(s1.suffix) THEN suffix_pass(s1.base, full_word_order) ELSE s1
      s3 == IF ~Truthy(s2.suffix) THEN suffix_pass(s2.base, stance_order) ELSE s2
  IN  [prefix |-> p.prefix, base |-> s3.base, suffix |-> s3.suffix]

(* An extractor that tries the bare operators before the stance suffixes *)
extract_components_operators_before_stance(w) ==
  LET p  == extract_prefix(upper(w))
      s1 == suffix_pass(p.base, full_word_order)
      s2 == IF ~Truthy(s1.suffix) THEN suffix_pass(s1.base, operator_order) ELSE s1
      s3 == IF ~Truthy(s2.suffix) THEN suffix_pass(s2.base, stance_order) ELSE s2
  IN  [prefix |-> p.prefix, base |-> s3.base, suffix |-> s3.suffix]

extract_components(w) ==
  LET p  == extract_prefix(upper(w))
      s1 == suffix_pass(p.base, full_word_order)
      s2 == IF ~Truthy(s1.suffix) THEN suffix_pass(s1.base, stance_order) ELSE s1
      s3 == IF ~Truthy(s2.suffix) THEN suffix_pass(s2.base, operator_order) ELSE s2
  IN  [prefix |-> p.prefix, base |-> s3.base, suffix |-> s3.suffix]

(* ----------------------------------------------------------------------- *)
(* is_greek_compound, parse_greek                                          *)
(* ----------------------------------------------------------------------- *)

is_greek_compound(w) ==
  LET word_upper == upper(w)
  IN  \E i \in DOMAIN GREEK_ROOTS :
        /\ startswith(word_upper, GREEK_ROOTS[i])
        /\ \E j \in DOMAIN GREEK_SUFFIXES : contains(word_upper, GREEK_SUFFIXES[j])

CRACY == <<"C","R","A","C","Y">>

(* The root of the CRACY branch: the first root the word starts with *)
cracy_root(word_upper) ==
  FirstIndex(GREEK_ROOTS, LAMBDA root : startswith(word_upper, root))


(* A standard branch that stops at the first root the word starts with *)
standard_root_first_match(word_upper) == cracy_root(word_upper)

(* The root of the standard branch: the first root the word starts with *)
(* whose remainder is a Greek suffix                                    *)
standard_root(word_upper) ==
  FirstIndex(GREEK_ROOTS,
             LAMBDA root : /\ startswith(word_upper, root)
                           /\ slice_from(word_upper, Len(root)) \in Range(GREEK_SUFFIXES))

parse_greek(w) ==
  LET word_upper == upper(w)
      c == cracy_root(word_upper)
      s == standard_root(word_upper)
  IN  IF contains(word_upper, CRACY) /\ c # 0
        THEN GREEK_ROOTS[c] \o <<"~","C","R","A","-","C","Y">>
      ELSE IF s # 0
        THEN GREEK_ROOTS[s] \o <<"~">> \o slice_from(word_upper, Len(GREEK_ROOTS[s]))
      ELSE word_upper

(* ----------------------------------------------------------------------- *)
(* parse_word                                                              *)
(* ----------------------------------------------------------------------- *)

(* tier = None *)
TierNone == 0


(* A cleaning step that does not keep the tilde *)
clean_word_drop_tilde(original) ==
  SelectSeq(original, LAMBDA c : isalnum(c) \/ c \in {"-", "_", "'"})

(* word_clean = ''.join(c for c in original if c.isalnum() or c in "-_~'") *)
clean_word(original) ==
  SelectSeq(original, LAMBDA c : isalnum(c) \/ c \in {"-", "_", "~", "'"})

(* The record returned for a Greek compound *)
greek_analysis(original, word_clean) ==
  [raised           |-> "None",
   original         |-> original,
   parsed           |-> parse_greek(word_clean),
   polarity         |-> "Sovereign (Greek compound)",
   resonance        |-> calculate_resonance(word_clean),
   is_shadow        |-> FALSE,
   shadow_types     |-> <<>>,
   components       |-> <<>>,
   warnings         |-> <<>>,
   alternatives     |-> <<>>,
   tier             |-> TierNone,
   field_context    |-> "None",
   educational_note |-> "Greek compound with tilde flow"]

(* self.flag_semantic and word_clean.lower() in self.SEMANTIC_SHADOWS *)
semantic_match(word_clean, flag) ==
  flag /\ has_key(SEMANTIC_SHADOWS, lower(word_clean))

semantic_warning(word_clean) ==
  <<"Semantic control: ", entry_of(SEMANTIC_SHADOWS, lower(word_clean)).text>>


(* tier = 2 *)
tier_always_2(tier) == 2

(* tier = tier or 2 *)
tier_or_2(tier) == IF tier = TierNone THEN 2 ELSE tier

(* What the detector's branch adds: warning, alternative and polarity *)
vcc_warning(vcc) ==
  IF vcc.separator = "tilde"
    THEN <<"V+CC shadow: ">> \o vcc.prefix \o <<" positional - tilde neutralizes">>
    ELSE <<"V+CC shadow: ">> \o vcc.prefix \o <<" operational - hyphen required">>

vcc_alternative(word_upper, vcc) ==
  LET base == slice_from(word_upper, Len(vcc.prefix))
  IN  IF vcc.separator = "tilde" THEN vcc.prefix \o <<"~">> \o base
      ELSE vcc.prefix \o <<"-">> \o base

vcc_polarity(vcc) ==
  IF ~vcc.is_vcc THEN "Sovereign"
  ELSE IF vcc.separator = "tilde" THEN "Sovereign with tilde (positional union)"
  ELSE "Shadow (operational, use hyphen or avoid)"

(* parts: the components that are present, in the order prefix, base, suffix *)
present_parts(components) ==
  SelectSeq(<<components.prefix, components.base, components.suffix>>, Truthy)

render_casual(word_clean, is_shadow, alternatives) ==
  IF is_shadow /\ alternatives # <<>> THEN alternatives[1] ELSE word_clean


(* A Structural rendering without the tilde case *)
render_structural_no_tilde(components, vcc) ==
  join(<<"-">>, present_parts(components))

render_structural(components, vcc) ==
  IF vcc.is_vcc /\ vcc.separator = "tilde"
    THEN components.prefix \o <<"~">> \o components.base
         \o (IF Truthy(components.suffix) THEN <<"-">> \o components.suffix ELSE <<>>)
    ELSE join(<<"-">>, present_parts(components))


(* A Ceremonial rendering that joins with the tilde *)
render_ceremonial_tilde(components) == join(<<"~">>, present_parts(components))

render_ceremonial(components) == join(<<"_">>, present_parts(components))

(* f"{text}[{info['meaning']}]" *)
with_meaning(text, meaning) == text \o <<"[", meaning, "]">>

prefix_with_meaning(prefix) ==
  IF has_key(VCC_PREFIXES, prefix)
    THEN with_meaning(prefix, entry_of(VCC_PREFIXES, prefix).meaning)
  ELSE IF has_key(OTHER_PREFIXES, prefix)
    THEN with_meaning(prefix, entry_of(OTHER_PREFIXES, prefix).meaning)
  ELSE prefix

base_with_meaning(base) ==
  IF has_key(COMMON_ROOTS, base)
    THEN with_meaning(base, entry_of(COMMON_ROOTS, base).meaning)
    ELSE base

suffix_with_meaning(suffix) ==
  IF has_key(FULL_WORD_SUFFIXES, suffix)
    THEN with_meaning(suffix, entry_of(FULL_WORD_SUFFIXES, suffix).meaning)
  ELSE IF has_key(STANCE_SUFFIXES, suffix)
    THEN with_meaning(suffix, entry_of(STANCE_SUFFIXES, suffix).meaning)
  ELSE suffix

parts_with_meaning(components) ==
     (IF Truthy(components.prefix)
        THEN <<prefix_with_meaning(components.prefix)>> ELSE <<>>)
  \o (IF Truthy(components.base)
        THEN <<base_with_meaning(components.base)>> ELSE <<>>)
  \o (IF Truthy(components.suffix)
        THEN <<suffix_with_meaning(components.suffix)>> ELSE <<>>)

(* parts_with_meaning[0] of an empty list raises IndexError *)
educational_raises(components, vcc) ==
  vcc.is_vcc /\ vcc.separator = "tilde" /\ parts_with_meaning(components) = <<>>

render_educational(components, vcc) ==
  LET parts == parts_with_meaning(components)
  IN  IF vcc.is_vcc /\ vcc.separator = "tilde"
        THEN IF parts = <<>> THEN <<>>
             ELSE parts[1] \o <<"~">> \o join(<<"~">>, Tail(parts))
        ELSE join(<<"-">>, parts)

render(lvl, word_clean, is_shadow, alternatives, components, vcc) ==
  IF lvl = "CASUAL" THEN render_casual(word_clean, is_shadow, alternatives)
  ELSE IF lvl = "STRUCTURAL" THEN render_structural(components, vcc)
  ELSE IF lvl = "CEREMONIAL" THEN render_ceremonial(components)
  ELSE render_educational(components, vcc)

(* A lookup in which the last field that lists the word wins *)
field_lookup_last_match(word_clean) ==
  LET I == {i \in DOMAIN TECHNICAL_FIELDS :
              lower(word_clean) \in Range(TECHNICAL_FIELDS[i].terms)}
  IN  IF I = {} THEN "None"
      ELSE TECHNICAL_FIELDS[CHOOSE i \in I : \A j \in I : j <= i].field

(* The first field, in table order, whose terms hold the lowercase word *)
field_lookup(word_clean) ==
  LET i == FirstIndex(TECHNICAL_FIELDS,
                      LAMBDA f : lower(word_clean) \in Range(f.terms))
  IN  IF i = 0 THEN "None" ELSE TECHNICAL_FIELDS[i].field

(* info of a component: the meaning of its table entry, "" for {} *)
prefix_info(prefix) ==
  IF has_key(VCC_PREFIXES, prefix) THEN entry_of(VCC_PREFIXES, prefix).meaning
  ELSE IF has_key(OTHER_PREFIXES, prefix) THEN entry_of(OTHER_PREFIXES, prefix).meaning
  ELSE ""

base_info(base) ==
  IF has_key(COMMON_ROOTS, base) THEN entry_of(COMMON_ROOTS, base).meaning ELSE ""

suffix_info(suffix) ==
  IF has_key(FULL_WORD_SUFFIXES, suffix)
    THEN entry_of(FULL_WORD_SUFFIXES, suffix).meaning
  ELSE IF has_key(STANCE_SUFFIXES, suffix)
    THEN entry_of(STANCE_SUFFIXES, suffix).meaning
  ELSE ""

component_details(components) ==
     (IF Truthy(components.prefix)
        THEN <<[type |-> "prefix", text |-> components.prefix,
                info |-> prefix_info(components.prefix)]>> ELSE <<>>)
  \o (IF Truthy(components.base)
        THEN <<[type |-> "base", text |-> components.base,
                info |-> base_info(components.base)]>> ELSE <<>>)
  \o (IF Truthy(components.suffix)
        THEN <<[type |-> "suffix", text |-> components.suffix,
                info |-> suffix_info(components.suffix)]>> ELSE <<>>)

(* The record returned for a word that is no Greek compound *)
general_analysis(original, word_clean, lvl, flag) ==
  LET word_upper   == upper(word_clean)
      semantic     == semantic_match(word_clean, flag)
      vcc          == detect_vcc(word_clean)
      tier1        == IF semantic THEN 1 ELSE TierNone
      is_shadow    == semantic \/ vcc.is_vcc
      shadow_types == (IF semantic THEN <<"SEMANTIC">> ELSE <<>>)
                      \o (IF vcc.is_vcc THEN <<"STRUCTURAL">> ELSE <<>>)
      warnings     == (IF semantic THEN <<semantic_warning(word_clean)>> ELSE <<>>)
                      \o (IF vcc.is_vcc THEN <<vcc_warning(vcc)>> ELSE <<>>)
      alternatives == IF vcc.is_vcc THEN <<vcc_alternative(word_upper, vcc)>> ELSE <<>>
      components   == extract_components(word_clean)
  IN  [raised           |-> IF lvl = "EDUCATIONAL" /\ educational_raises(components, vcc)
                              THEN "IndexError" ELSE "None",
       original         |-> original,
       parsed           |-> render(lvl, word_clean, is_shadow, alternatives,
                                   components, vcc),
       polarity         |-> vcc_polarity(vcc),
       resonance        |-> calculate_resonance(word_clean),
       is_shadow        |-> is_shadow,
       shadow_types     |-> shadow_types,
       components       |-> component_details(components),
       warnings         |-> warnings,
       alternatives     |-> alternatives,
       tier             |-> IF vcc.is_vcc THEN tier_or_2(tier1) ELSE tier1,
       field_context    |-> field_lookup(word_clean),
       educational_note |-> "None"]


(* A parse_word that does not check for Greek compounds first *)
parse_word_no_greek_check(w, lvl, flag) ==
  general_analysis(strip(w), clean_word(strip(w)), lvl, flag)

parse_word(w, lvl, flag) ==
  LET original   == strip(w)
      word_clean == clean_word(original)
  IN  IF is_greek_compound(word_clean)
        THEN greek_analysis(original, word_clean)
        ELSE general_analysis(original, word_clean, lvl, flag)

(* ----------------------------------------------------------------------- *)
(* analyze_document and generate_report                                    *)
(* ----------------------------------------------------------------------- *)

(* \w of the regular expressions *)
is_w(c) == isalnum(c) \/ c = "_"

(* The class [\w\-\_\~\'] *)
in_word_class(c) == is_w(c) \/ c \in {"-", "~", "'"}

(* \b before text[i]: exactly one of text[i-1], text[i] is a \w character  *)
word_boundary(text, i) ==
  LET before == i > 1 /\ i - 1 <= Len(text) /\ is_w(text[i - 1])
      after  == i >= 1 /\ i <= Len(text) /\ is_w(text[i])
  IN  before # after

(* The last index of the run of class characters that starts at i *)
RECURSIVE run_end(_, _)
run_end(text, i) ==
  IF i + 1 <= Len(text) /\ in_word_class(text[i + 1])
    THEN run_end(text, i + 1)
    ELSE i

(* \b[\w\-\_\~\']+\b tried at i: the last index of the match, the greedy   *)
(* run given back until a \b follows it; 0 when there is no match          *)
match_end(text, i) ==
  IF ~(word_boundary(text, i) /\ in_word_class(text[i]))
    THEN 0
    ELSE LET ends == {e \in i..run_end(text, i) : word_boundary(text, e + 1)}
         IN  IF ends = {} THEN 0 ELSE CHOOSE e \in ends : \A f \in ends : f <= e

RECURSIVE findall_from(_, _)
findall_from(text, i) ==
  IF i > Len(text)
    THEN <<>>
    ELSE LET e == match_end(text, i)
         IN  IF e = 0
               THEN findall_from(text, i + 1)
               ELSE <<SubSeq(text, i, e)>> \o findall_from(text, e + 1)

(* re.findall(r'\b[\w\-\_\~\']+\b', text) *)
findall_words(text) == findall_from(text, 1)

has_type(analysis, shadow_type) ==
  \E i \in DOMAIN analysis.shadow_types : analysis.shadow_types[i] = shadow_type

(* a / b on numbers: the quotient as the fraction num / den (the float of  *)
(* the code is the double nearest to it); a division by zero raises        *)
divide(a, b) ==
  IF b = 0
    THEN [raised |-> "ZeroDivisionError", num |-> 0, den |-> 1]
    ELSE [raised |-> "None", num |-> a, den |-> b]

times(q, k) == [q EXCEPT !.num = @ * k]

(* A score computed without the test total_words > 0 *)
sovereignty_score_unguarded(total_words, shadow_count) ==
  times(divide(total_words - shadow_count, total_words), 100)

sovereignty_score(total_words, shadow_count) ==
  IF total_words > 0
    THEN times(divide(total_words - shadow_count, total_words), 100)
    ELSE [raised |-> "None", num |-> 0, den |-> 1]

(* The body of "for word in words" for one word and its analysis, on the   *)
(* counters so far; a parse_word that raises leaves them with the          *)
(* exception                                                               *)
loop_body(w, analysis, acc) ==
  IF analysis.raised # "None"
    THEN [acc EXCEPT !.raised = analysis.raised]
  ELSE IF analysis.is_shadow
    THEN [acc EXCEPT
            !.shadow_count = @ + 1,
            !.structural_shadows =
               IF has_type(analysis, "STRUCTURAL") THEN Append(@, w) ELSE @,
            !.semantic_shadows =
               IF has_type(analysis, "SEMANTIC") THEN Append(@, w) ELSE @]
  ELSE acc

(* "for word in words", analyses[i] being parse_word(words[i]): an         *)
(* exception ends the loop                                                 *)
RECURSIVE analyze_loop(_, _, _)
analyze_loop(words, analyses, acc) ==
  IF words = <<>> \/ acc.raised # "None"
    THEN acc
    ELSE analyze_loop(Tail(words), Tail(analyses),
                      loop_body(Head(words), Head(analyses), acc))

(* self.parse_word(word) of each word, as a list *)
word_analyses(words, lvl, flag) ==
  <<>> \o [i \in DOMAIN words |-> parse_word(words[i], lvl, flag)]

(* The counters and lists before the loop *)
no_shadows ==
  [raised |-> "None", shadow_count |-> 0,
   structural_shadows |-> <<>>, semantic_shadows |-> <<>>]

(* The score and the dict returned, from the counters the loop left *)
document_stats(total_words, counted) ==
  LET score == sovereignty_score(total_words, counted.shadow_count)
  IN  [raised             |-> IF counted.raised # "None"
                                THEN counted.raised ELSE score.raised,
       total_words        |-> total_words,
       shadow_count       |-> counted.shadow_count,
       structural_shadows |-> counted.structural_shadows,
       semantic_shadows   |-> counted.semantic_shadows,
       sovereignty_score  |-> [num |-> score.num, den |-> score.den]]

(* analyze_document after the tokenizer *)
analyze_words(words, lvl, flag) ==
  document_stats(Len(words),
                 analyze_loop(words, word_analyses(words, lvl, flag), no_shadows))

analyze_document(text, lvl, flag) ==
  analyze_words(findall_words(text), lvl, flag)

(* f"{score:.1f}": the tenths nearest to num / den.  A tie needs a         *)
(* denominator that 16 divides.                                            *)
format_1f(score) ==
  LET tenths == (2 * 10 * score.num + score.den) \div (2 * score.den)
  IN  str(tenths \div 10) \o <<".">> \o str(tenths % 10)

(* list[:10] *)
first_ten(list) == SubSeq(list, 1, IF Len(list) < 10 THEN Len(list) ELSE 10)

(* f"  * {word} -> {word_analysis.parsed}" *)
report_line(w, lvl, flag) ==
  <<"  * ">> \o w \o <<" -> ">> \o parse_word(w, lvl, flag).parsed

(* The lines of set(list): a set has no order of iteration the code fixes, *)
(* so the lines are kept as a set                                          *)
listed_lines(list, lvl, flag) ==
  {report_line(w, lvl, flag) : w \in Range(list)}

(* The section of the structural shadows: a section the code leaves out    *)
(* has the heading None and no line                                        *)
structural_section(structural, lvl, flag) ==
  IF structural # <<>>
    THEN [heading |-> <<"STRUCTURAL SHADOWS (V+CC): ">> \o str(Len(structural)),
          listed  |-> listed_lines(first_ten(structural), lvl, flag),
          more    |-> IF Len(structural) > 10
                        THEN <<"  ... and ">> \o str(Len(structural) - 10)
                             \o <<" more">>
                        ELSE None]
    ELSE [heading |-> None, listed |-> {}, more |-> None]

(* The section of the semantic shadows *)
semantic_section(semantic, lvl, flag) ==
  IF semantic # <<>>
    THEN [heading |-> <<"SEMANTIC SHADOWS (Control Language): ">>
                        \o str(Len(semantic)),
          listed  |-> listed_lines(semantic, lvl, flag)]
    ELSE [heading |-> None, listed |-> {}]

(* The report before "\n".join, from the dict analyze_document returned:   *)
(* the head lines in order, then the two sections                          *)
report_of(analysis, lvl, strict, flag) ==
  [raised     |-> analysis.raised,
   head       |-> << <<"CODEXGLYPH DOCUMENT ANALYSIS REPORT">>,
                     <<"Parsing Level: ", lvl>>,
                     <<"Strictness: ", strict>>,
                     <<"Total Words: ">> \o str(analysis.total_words),
                     <<"Shadow Glyphs: ">> \o str(analysis.shadow_count),
                     <<"Sovereignty Score: ">>
                       \o format_1f(analysis.sovereignty_score) \o <<"%">> >>,
   structural |-> structural_section(analysis.structural_shadows, lvl, flag),
   semantic   |-> semantic_section(analysis.semantic_shadows, lvl, flag)]

generate_report(text, lvl, strict, flag) ==
  report_of(analyze_document(text, lvl, flag), lvl, strict, flag)

(* ----------------------------------------------------------------------- *)
(* The parser as a state machine                                           *)
(* ----------------------------------------------------------------------- *)

(* The words handed to the parser: the words of main() and of the usage    *)
(* examples, words of the tables, short words whose letter sums are the    *)
(* master numbers, words that end in the operator suffixes, each followed   *)
(* by up to MaxTyped further characters.                                   *)
Stems ==
  {
    <<>>,
    <<"e","x">>,
    <<"u","n">>,
    <<"i","n">>,
    <<"b","i","o">>,
    <<"g","e","o">>,
    <<"e","x","p","e","r","i","m","e","n","t">>,
    <<"i","n","f","o","r","m","a","t","i","o","n">>,
    <<"g","o","v","e","r","n","m","e","n","t">>,
    <<"G","o","v","e","r","n","m","e","n","t">>,
    <<"u","n","d","e","r","s","t","a","n","d">>,
    <<"a","t","t","e","n","t","i","o","n">>,
    <<"o","b","j","e","c","t">>,
    <<"p","r","o","j","e","c","t">>,
    <<"r","e","j","e","c","t">>,
    <<"i","n","j","e","c","t">>,
    <<"c","o","n","f","i","r","m">>,
    <<"s","u","p","p","o","r","t">>,
    <<"i","l","l","n","e","s","s">>,
    <<"b","i","o","l","o","g","y">>,
    <<"d","e","m","o","c","r","a","c","y">>,
    <<"g","e","o","g","r","a","p","h","y">>,
    <<"t","h","e","o","c","r","a","c","y">>,
    <<"i","n","t","e","r","f","a","c","e">>,
    <<"o","b","s","e","r","v","a","t","i","o","n">>,
    <<" ","r","e","p","r","e","s","e","n","t","a","t","i","v","e"," ">>,
    <<"e","x","1">>,
    <<"u","n","-","d","o">>,
    <<"i","n","f","~","o","r","m">>,
    <<"K">>,
    <<"V">>,
    <<"Z","G">>,
    <<"Z","R">>,
    <<"Z","Z","C">>,
    <<"Z","Z","N">>,
    <<"Z","Z","Y">>,
    <<"Z","Z","Z","J">>,
    <<"Z","Z","Z","U">>,
    <<"C","Z">>,
    <<"q","u","i","c","k","l","y">>,
    <<"s","a","l","a","r","y">>,
    <<"f","a","c","t","o","r","y">>,
    <<"p","o","e","t","r","y">>,
    <<"n","o","t","i","f","y">>,
    <<"f","o","o","l","i","s","h">>,
    <<"y">>,
    <<"-","_","'">>
  }

Keys == {"s", "a", "~", "!"}

MaxTyped == 2

(* The texts handed to analyze_document and generate_report: the empty     *)
(* text, the document of usage_examples, a text of ten words, texts with   *)
(* more than ten shadow words, repeated and distinct, and a text whose     *)
(* words carry the characters - ~ ' _ and punctuation; each followed by up *)
(* to MaxWritten further words.                                            *)
Docs ==
  {
    <<>>,
    <<"T","h","e"," ","g","o","v","e","r","n","m","e","n","t"," ","n","e","e","d","s"," ","t","o"," ","u","n","d","e","r","s","t","a","n","d"," ","t","h","e"," ","i","n","f","o","r","m","a","t","i","o","n",".">>,
    <<"T","h","e"," ","g","o","v","e","r","n","m","e","n","t"," ","r","e","p","r","e","s","e","n","t","a","t","i","v","e"," ","w","i","l","l"," ","e","x","p","e","r","i","m","e","n","t"," ","w","i","t","h"," ","t","h","e"," ","n","e","w"," ","d","a","t","a"," ","t","o","d","a","y">>,
    <<"e","x","p","e","r","i","m","e","n","t"," ","e","x","p","e","r","i","m","e","n","t"," ","e","x","p","e","r","i","m","e","n","t"," ","e","x","p","e","r","i","m","e","n","t"," ","e","x","p","e","r","i","m","e","n","t"," ","e","x","p","e","r","i","m","e","n","t"," ","e","x","p","e","r","i","m","e","n","t"," ","e","x","p","e","r","i","m","e","n","t"," ","e","x","p","e","r","i","m","e","n","t"," ","e","x","p","e","r","i","m","e","n","t"," ","e","x","p","e","r","i","m","e","n","t">>,
    <<"e","x","p","e","r","i","m","e","n","t"," ","e","x","p","e","r","i","m","e","n","t"," ","e","x","p","e","r","i","m","e","n","t"," ","e","x","p","e","r","i","m","e","n","t"," ","e","x","p","e","r","i","m","e","n","t"," ","e","x","p","e","r","i","m","e","n","t"," ","e","x","p","e","r","i","m","e","n","t"," ","e","x","p","e","r","i","m","e","n","t"," ","e","x","p","e","r","i","m","e","n","t"," ","e","x","p","e","r","i","m","e","n","t"," ","o","b","j","e","c","t">>,
    <<"i","l","l"," ","a","d","d"," ","i","m","p"," ","o","p","t"," ","a","b","s"," ","i","r","k"," ","e","x","t"," ","u","n","d","o"," ","o","b","j","e","c","t"," ","i","n","j","e","c","t"," ","a","t","t","e","s","t">>,
    <<"~","i","n","~","f","o","r","m","~"," ","u","n","-","d","o"," ","i","t","'","s"," ","e","x","!","s"," ","_"," ","'","o","b","j","e","c","t","'">>
  }

DocWords ==
  {
    <<"o","b","j","e","c","t">>,
    <<"g","o","v","e","r","n","m","e","n","t">>
  }

MaxWritten == 1

Levels == {"CASUAL", "STRUCTURAL", "CEREMONIAL", "EDUCATIONAL"}

Strictness == {"PERMISSIVE", "STANDARD", "RIGOROUS"}

NoAnalysis == [raised |-> "NoCall"]

VARIABLES
  word,               \* the string the caller passes
  typed,              \* how many characters were added to the stem
  level,              \* self.level
  strictness,         \* self.strictness
  flag_semantic,      \* self.flag_semantic
  show_alternatives,  \* self.show_alternatives
  pc,                 \* "input", "parsed", "reducing", "resonated",
                      \* "document", "analyzed", "reported"
  result,             \* the GlyphAnalysis parse_word returned
  total,              \* calculate_resonance: total
  reduced,            \* calculate_resonance: reduced
  resonance,          \* calculate_resonance: the string returned
  text,               \* the text the caller passes
  written,            \* how many words were added to the text
  stats,              \* the dict analyze_document returned
  report              \* the lines generate_report joined

vars == <<word, typed, level, strictness, flag_semantic, show_alternatives,
          pc, result, total, reduced, resonance, text, written, stats, report>>

parser == <<level, strictness, flag_semantic, show_alternatives>>

document == <<text, written, stats, report>>

(* A parser is constructed and is handed either a word or a text *)
Init ==
  /\ \/ pc = "input" /\ word \in Stems /\ text = <<>>
     \/ pc = "document" /\ word = <<>> /\ text \in Docs
  /\ typed = 0
  /\ level \in Levels
  /\ strictness \in Strictness
  /\ flag_semantic \in BOOLEAN
  /\ show_alternatives \in BOOLEAN
  /\ result = NoAnalysis
  /\ total = 0
  /\ reduced = 0
  /\ resonance = <<>>
  /\ written = 0
  /\ stats = NoAnalysis
  /\ report = NoAnalysis

(* The caller extends the word by one character *)
Type(c) ==
  /\ pc = "input"
  /\ typed < MaxTyped
  /\ word' = Append(word, c)
  /\ typed' = typed + 1
  /\ UNCHANGED <<parser, pc, result, total, reduced, resonance, document>>

(* parser.parse_word(word) *)
ParseWord ==
  /\ pc = "input"
  /\ result' = parse_word(word, level, flag_semantic)
  /\ pc' = "parsed"
  /\ UNCHANGED <<word, typed, parser, total, reduced, resonance, document>>

(* parser.calculate_resonance(word), up to the reduction loop *)
ResonanceCall ==
  /\ pc = "input"
  /\ total' = letter_sum(alpha_clean(word))
  /\ reduced' = total'
  /\ pc' = "reducing"
  /\ UNCHANGED <<word, typed, parser, result, resonance, document>>


(* A loop body that sums the digits of total instead of reduced *)
ReduceStep_digits_of_total ==
  /\ pc = "reducing"
  /\ must_reduce(reduced)
  /\ reduced' = digit_sum(total)
  /\ UNCHANGED <<word, typed, parser, pc, result, total, resonance, document>>

(* One pass of the body of the while loop *)
ReduceStep ==
  /\ pc = "reducing"
  /\ must_reduce(reduced)
  /\ reduced' = digit_sum(reduced)
  /\ UNCHANGED <<word, typed, parser, pc, result, total, resonance, document>>

(* The loop ends and the string is returned *)
ResonanceReturn ==
  /\ pc = "reducing"
  /\ ~must_reduce(reduced)
  /\ resonance' = resonance_string(total, reduced)
  /\ pc' = "resonated"
  /\ UNCHANGED <<word, typed, parser, result, total, reduced, document>>

(* The caller extends the text by a blank and one word *)
Write(w) ==
  /\ pc = "document"
  /\ written < MaxWritten
  /\ text' = text \o <<" ">> \o w
  /\ written' = written + 1
  /\ UNCHANGED <<word, typed, parser, pc, result, total, reduced, resonance,
                 stats, report>>

(* parser.analyze_document(text) *)
AnalyzeDocument ==
  /\ pc = "document"
  /\ stats' = analyze_document(text, level, flag_semantic)
  /\ pc' = "analyzed"
  /\ UNCHANGED <<word, typed, parser, result, total, reduced, resonance,
                 text, written, report>>

(* parser.generate_report(text) *)
GenerateReport ==
  /\ pc = "document"
  /\ report' = generate_report(text, level, strictness, flag_semantic)
  /\ pc' = "reported"
  /\ UNCHANGED <<word, typed, parser, result, total, reduced, resonance,
                 text, written, stats>>

Next ==
  \/ \E c \in Keys : Type(c)
  \/ ParseWord
  \/ ResonanceCall
  \/ ReduceStep
  \/ ResonanceReturn
  \/ \E w \in DocWords : Write(w)
  \/ AnalyzeDocument
  \/ GenerateReport

Spec == Init /\ [][Next]_vars

(* The calls run to completion: a started reduction takes its next step *)
FairSpec == Spec /\ WF_vars(ReduceStep) /\ WF_vars(ResonanceReturn)

(* ----------------------------------------------------------------------- *)
(* Properties                                                              *)
(* ----------------------------------------------------------------------- *)

Experiment == <<"e","x","p","e","r","i","m","e","n","t">>

Understand == <<"u","n","d","e","r","s","t","a","n","d">>

Government == <<"g","o","v","e","r","n","m","e","n","t">>

Information == <<"i","n","f","o","r","m","a","t","i","o","n">>

Biology == <<"b","i","o","l","o","g","y">>

Democracy == <<"d","e","m","o","c","r","a","c","y">>

Geography == <<"g","e","o","g","r","a","p","h","y">>

(* The cleaned form of the word of the current call *)
Cleaned == clean_word(strip(word))

Parsed == pc = "parsed"

IsGreekResult == result.polarity = "Sovereign (Greek compound)"

(* The text of the component of the given type in the returned record, *)
(* None when the record has none                                       *)
ComponentText(type) ==
  LET I == {i \in DOMAIN result.components : result.components[i].type = type}
  IN  IF I = {} THEN None ELSE result.components[CHOOSE i \in I : TRUE].text

StructuralTag == "STRUCTURAL" \in Range(result.shadow_types)

SemanticTag == "SEMANTIC" \in Range(result.shadow_types)

TildeShadow == result.polarity = "Sovereign with tilde (positional union)"

StandardStructuralCall ==
  Parsed /\ level = "STRUCTURAL" /\ strictness = "STANDARD" /\ flag_semantic

(* C1 as stated: "experiment" in Structural mode is a shadow via EX, is split *)
(* into prefix EX, base PERIM and operator suffix ENT, and is rendered        *)
(* EX~PERIM-ENT.                                                              *)
C1_AsStated ==
  (StandardStructuralCall /\ word = Experiment) =>
     /\ result.is_shadow /\ TildeShadow
     /\ ComponentText("prefix") = <<"E","X">>
     /\ ComponentText("base") = <<"P","E","R","I","M">>
     /\ ComponentText("suffix") = <<"E","N","T">>
     /\ result.parsed = <<"E","X","~","P","E","R","I","M","-","E","N","T">>

(* C1 amended: "experiment" in Structural mode is a shadow via the positional *)
(* prefix EX; the residual PERIMENT ends with the full-word suffix MENT,      *)
(* which is tried before the operators, so the split is prefix EX, base PERI, *)
(* suffix MENT and the parsed output is EX~PERI-MENT.                         *)
C1_Experiment ==
  (StandardStructuralCall /\ word = Experiment) =>
     /\ result.is_shadow /\ TildeShadow /\ StructuralTag
     /\ result.alternatives = << <<"E","X","~","P","E","R","I","M","E","N","T">> >>
     /\ ComponentText("prefix") = <<"E","X">>
     /\ ComponentText("base") = <<"P","E","R","I">>
     /\ ComponentText("suffix") = <<"M","E","N","T">>
     /\ has_key(FULL_WORD_SUFFIXES, ComponentText("suffix"))
     /\ result.parsed = <<"E","X","~","P","E","R","I","-","M","E","N","T">>

C1_Witness == StandardStructuralCall /\ word = Experiment /\ result.is_shadow

(* C2 as stated: the detector fires only on a word whose extracted prefix is *)
(* a member of the VCC-capable prefix table.                                 *)
C2_AsStated ==
  (Parsed /\ StructuralTag) => has_key(VCC_PREFIXES, ComponentText("prefix"))

(* C2 amended: whenever the detector fires, the extractor finds a prefix for  *)
(* the same word and that prefix begins with the detector's prefix: it is     *)
(* that VCC-capable prefix itself or a longer entry of the non-VCC table      *)
(* (UNDER, INTER, EXTRA, ...); the detector never fires on a word with no     *)
(* extracted prefix.                                                          *)
C2_DetectorPrefix ==
  (Parsed /\ StructuralTag) =>
     LET p == ComponentText("prefix")
         d == detect_vcc(Cleaned)
     IN  /\ d.is_vcc
         /\ Truthy(p)
         /\ startswith(p, d.prefix)
         /\ \/ p = d.prefix /\ has_key(VCC_PREFIXES, p)
            \/ Len(p) > Len(d.prefix) /\ has_key(OTHER_PREFIXES, p)

C2_Witness ==
  /\ Parsed /\ StructuralTag /\ word = Understand
  /\ ComponentText("prefix") = <<"U","N","D","E","R">>

(* C3 as stated: in Structural mode every tilde-type shadow is rendered with *)
(* exactly one "~".                                                          *)
C3_AsStated ==
  (Parsed /\ level = "STRUCTURAL" /\ TildeShadow) => count(result.parsed, "~") = 1

(* C3 amended: in Structural mode the rendering of a tilde-type shadow holds  *)
(* exactly one "~" more than the cleaned word, which keeps its own tildes:    *)
(* exactly one when the word holds none (hyphen, underscore and apostrophe    *)
(* do not matter).                                                            *)
C3_StructuralTilde ==
  (Parsed /\ level = "STRUCTURAL" /\ TildeShadow) =>
     /\ count(result.parsed, "~") = 1 + count(Cleaned, "~")
     /\ count(word, "~") = 0 => count(result.parsed, "~") = 1

C3_Witness ==
  /\ Parsed /\ level = "STRUCTURAL" /\ TildeShadow
  /\ count(word, "~") = 1 /\ count(result.parsed, "~") = 2

(* C4 as stated: in Ceremonial mode no parsed output holds a "~". *)
C4_AsStated ==
  (Parsed /\ level = "CEREMONIAL") => count(result.parsed, "~") = 0

(* C4 amended: in Ceremonial mode the parsed output of a word that is not a   *)
(* Greek compound holds exactly the "~" characters of the cleaned word, none  *)
(* when the word holds none; a Greek compound is rendered by the Greek        *)
(* matcher in every mode.                                                     *)
C4_CeremonialTilde ==
  (Parsed /\ level = "CEREMONIAL" /\ ~is_greek_compound(Cleaned)) =>
     /\ count(result.parsed, "~") = count(Cleaned, "~")
     /\ count(word, "~") = 0 => count(result.parsed, "~") = 0

C4_Witness ==
  /\ Parsed /\ level = "CEREMONIAL" /\ TildeShadow
  /\ count(word, "~") = 0 /\ Len(result.components) = 3

(* C5: in Casual mode, analysing the parsed output of a non-shadow word *)
(* again gives the same parsed output.                                   *)
C5_CasualIdempotent ==
  (Parsed /\ level = "CASUAL" /\ ~result.is_shadow) =>
     parse_word(result.parsed, level, flag_semantic).parsed = result.parsed

C5_Witness ==
  /\ Parsed /\ level = "CASUAL" /\ ~result.is_shadow /\ IsGreekResult
  /\ result.parsed # clean_word(strip(word))
  /\ result.parsed # upper(clean_word(strip(word)))

(* C6: a word the Greek check accepts is returned, in every mode and with    *)
(* either setting of the semantic flag, as a non-shadow with polarity        *)
(* "Sovereign (Greek compound)", no shadow-type tags, no warnings, no        *)
(* alternatives and no tier; biology gives BIO~LOGY.                         *)
C6_GreekShortCircuit ==
  (Parsed /\ is_greek_compound(Cleaned)) =>
     /\ ~result.is_shadow
     /\ result.polarity = "Sovereign (Greek compound)"
     /\ result.shadow_types = <<>>
     /\ result.warnings = <<>>
     /\ result.alternatives = <<>>
     /\ result.tier = TierNone
     /\ word = Biology => result.parsed = <<"B","I","O","~","L","O","G","Y">>

C6_Witness ==
  /\ Parsed /\ is_greek_compound(Cleaned) /\ word = Biology
  /\ level = "CEREMONIAL" /\ ~flag_semantic

(* The first Greek root, in table order, that s starts with; 0 when none *)
FirstRootOf(s) ==
  LET I == {i \in DOMAIN GREEK_ROOTS : startswith(s, GREEK_ROOTS[i])}
  IN  IF I = {} THEN 0 ELSE CHOOSE i \in I : \A j \in I : i <= j

(* The first Greek root, in table order, that s starts with and whose *)
(* remainder is a Greek suffix; 0 when none                            *)
FirstSplittingRootOf(s) ==
  LET I == {i \in DOMAIN GREEK_ROOTS :
              /\ startswith(s, GREEK_ROOTS[i])
              /\ \E j \in DOMAIN GREEK_SUFFIXES :
                    s = GREEK_ROOTS[i] \o GREEK_SUFFIXES[j]}
  IN  IF I = {} THEN 0 ELSE CHOOSE i \in I : \A j \in I : i <= j

(* The rendering C7 states: ROOT is always the first root the word starts with *)
GreekAsStated(s) ==
  LET root == GREEK_ROOTS[FirstRootOf(s)]
      rest == SubSeq(s, Len(root) + 1, Len(s))
  IN  IF contains(s, CRACY) THEN root \o <<"~","C","R","A","-","C","Y">>
      ELSE IF rest \in Range(GREEK_SUFFIXES) THEN root \o <<"~">> \o rest
      ELSE s

(* The rendering of the amended C7 *)
GreekAmended(s) ==
  LET k == FirstSplittingRootOf(s)
  IN  IF contains(s, CRACY)
        THEN GREEK_ROOTS[FirstRootOf(s)] \o <<"~","C","R","A","-","C","Y">>
      ELSE IF k # 0
        THEN GREEK_ROOTS[k] \o <<"~">> \o SubSeq(s, Len(GREEK_ROOTS[k]) + 1, Len(s))
      ELSE s

(* C7 as stated: a Greek compound is rendered ROOT~CRA-CY, ROOT~SUFFIX or    *)
(* unchanged, ROOT being the first root in table order the word starts with. *)
C7_AsStated ==
  (Parsed /\ IsGreekResult) => result.parsed = GreekAsStated(upper(Cleaned))

(* C7 amended: a Greek compound that contains CRACY is rendered ROOT~CRA-CY  *)
(* with ROOT the first root in table order the word starts with; otherwise   *)
(* it is rendered ROOT~SUFFIX with ROOT the first root in table order the    *)
(* word starts with whose remainder exactly equals a Greek suffix, when      *)
(* there is such a root (geography gives GEO~GRAPHY although it also starts  *)
(* with GE); otherwise it is the uppercased word unchanged. democracy gives  *)
(* DEMO~CRA-CY and biology gives BIO~LOGY.                                   *)
C7_GreekRendering ==
  (Parsed /\ IsGreekResult) =>
     /\ result.parsed = GreekAmended(upper(Cleaned))
     /\ word = Democracy =>
          result.parsed = <<"D","E","M","O","~","C","R","A","-","C","Y">>
     /\ word = Biology => result.parsed = <<"B","I","O","~","L","O","G","Y">>
     /\ word = Geography =>
          result.parsed = <<"G","E","O","~","G","R","A","P","H","Y">>

C7_Witness ==
  /\ Parsed /\ IsGreekResult /\ word = Geography
  /\ FirstRootOf(upper(Cleaned)) # FirstSplittingRootOf(upper(Cleaned))

(* C8: with semantic flagging on, a word that is no Greek compound and whose *)
(* lowercase cleaned form is a key of the semantic-shadow table is a shadow  *)
(* with the semantic tag, a warning holding the table's text, and tier 1,    *)
(* also when the detector fires; the structural tag is present exactly when  *)
(* the detector fires; tier is 2 exactly when the detector fires without a   *)
(* semantic match; "government" has tier 1, one warning holding              *)
(* "govern-ment [govern the mind]", the semantic tag and no structural tag.  *)
C8_SemanticTier ==
  (Parsed /\ flag_semantic /\ ~is_greek_compound(Cleaned)) =>
     LET key   == lower(Cleaned)
         sem   == \E i \in DOMAIN SEMANTIC_SHADOWS : SEMANTIC_SHADOWS[i].key = key
         fired == detect_vcc(Cleaned).is_vcc
     IN  /\ sem =>
              /\ result.is_shadow
              /\ SemanticTag
              /\ \E i \in DOMAIN result.warnings :
                    entry_of(SEMANTIC_SHADOWS, key).text \in Range(result.warnings[i])
              /\ result.tier = 1
         /\ StructuralTag <=> fired
         /\ result.tier = 2 <=> (fired /\ ~sem)
         /\ word = Government =>
              /\ result.tier = 1
              /\ Len(result.warnings) = 1
              /\ "govern-ment [govern the mind]" \in Range(result.warnings[1])
              /\ SemanticTag
              /\ ~StructuralTag

C8_Witness ==
  /\ Parsed /\ flag_semantic /\ word = Information
  /\ SemanticTag /\ StructuralTag /\ result.tier = 1

(* The letter sum of a string: A=1 ... Z=26 in either case, other *)
(* characters 0                                                   *)
RECURSIVE LetterSum(_)
LetterSum(s) ==
  IF s = <<>> THEN 0
  ELSE LET I == {i \in DOMAIN UpperLetters :
                   Head(s) = UpperLetters[i] \/ Head(s) = LowerLetters[i]}
       IN  (IF I = {} THEN 0 ELSE CHOOSE i \in I : TRUE) + LetterSum(Tail(s))

Resonated == pc = "resonated"

HasArrow == "->" \in Range(resonance)

HasLabel == resonance # <<>> /\ resonance[Len(resonance)] = ")"

(* C9: an input whose letter sum is a master number is rendered as that      *)
(* value followed by its label in parentheses, with no arrow; the output     *)
(* holds the arrow exactly when the reduced value differs from the total,    *)
(* and a label exactly when the last value shown is a master number.         *)
C9_MasterPreserved ==
  Resonated =>
     /\ total = LetterSum(word)
     /\ total \in DOMAIN MASTER_NUMBERS =>
          /\ resonance = str(total) \o <<" ", "(", MASTER_NUMBERS[total], ")">>
          /\ ~HasArrow
     /\ HasArrow <=> reduced # total
     /\ HasArrow => resonance = str(total) \o <<"->">> \o str(reduced)
                                \o (IF HasLabel
                                      THEN <<" ", "(", MASTER_NUMBERS[reduced], ")">>
                                      ELSE <<>>)
     /\ HasLabel <=> reduced \in DOMAIN MASTER_NUMBERS

C9_Witness ==
  Resonated /\ total = 77 /\ resonance = <<"7", "7", " ", "(", "MasterMystic.Seeker", ")">>

(* C10: calculate_resonance terminates: every pass of the reduction loop      *)
(* starts from a value above 9 that is no master number and strictly         *)
(* decreases it, a started call returns, and the reduced value returned is    *)
(* in 0..9 or a master number (29 stops at 11); an input with no letters has  *)
(* total 0, reduced value 0 and output "0".                                   *)
C10_ResonanceTerminates ==
  /\ [][ReduceStep => (reduced' < reduced /\ reduced' >= 1)]_vars
  /\ [](Resonated => /\ reduced \in (0..9) \cup DOMAIN MASTER_NUMBERS
                     /\ total = 29 => reduced = 11
                     /\ alpha_clean(word) = <<>> =>
                          (total = 0 /\ reduced = 0 /\ resonance = <<"0">>))
  /\ (pc = "reducing") ~> Resonated

C10_Witness == Resonated /\ total = 29 /\ reduced = 11 /\ HasArrow

(* ----------------------------------------------------------------------- *)
(* C11 - C19                                                               *)
(* ----------------------------------------------------------------------- *)

Analyzed == pc = "analyzed"

Reported == pc = "reported"

(* The tilde branches of the Structural and Educational renderings ran *)
TildeBranch == Parsed /\ TildeShadow /\ level \in {"STRUCTURAL", "EDUCATIONAL"}

(* C11: no call fails: parse_word, analyze_document and generate_report      *)
(* return without raising for every word, text, level and option, and        *)
(* calculate_resonance returns a non-empty string; where the tilde branch    *)
(* of the Structural or Educational rendering runs, the extractor found a    *)
(* prefix, the rendering starts with it and holds no None.                   *)
C11_NoCallFails ==
  /\ Parsed => result.raised = "None"
  /\ Analyzed => stats.raised = "None"
  /\ Reported => report.raised = "None"
  /\ Resonated => resonance # <<>>
  /\ TildeBranch =>
       LET prefix == ComponentText("prefix")
       IN  /\ Truthy(prefix)
           /\ Len(result.parsed) > Len(prefix)
           /\ SubSeq(result.parsed, 1, Len(prefix)) = prefix
           /\ "~" \in Range(result.parsed)
           /\ "None" \notin Range(result.parsed)

(* The Educational tilde branch ran on a word of three characters, the       *)
(* shortest on which the detector fires, and returned                        *)
C11_Witness ==
  /\ Parsed /\ level = "EDUCATIONAL" /\ TildeShadow
  /\ Len(Cleaned) = 3
  /\ result.raised = "None"
  /\ Truthy(ComponentText("prefix"))

(* The word tokens of the text and the positions of those whose analysis is   *)
(* a shadow                                                                   *)
Tokens == findall_words(text)

ShadowTokens ==
  {i \in DOMAIN Tokens : parse_word(Tokens[i], level, flag_semantic).is_shadow}

(* C12: analyze_document returns total_words equal to the number of word      *)
(* tokens, shadow_count equal to the number of tokens whose analysis is a     *)
(* shadow, between 0 and total_words, and the score                           *)
(* (total_words - shadow_count) / total_words * 100, between 0 and 100; with  *)
(* no token the score is 0 and nothing is divided; ten words with three       *)
(* shadows score 70; the empty text has 0 words and score 0.                  *)
C12_DocumentStatistics ==
  Analyzed =>
    LET n     == stats.total_words
        s     == stats.shadow_count
        score == stats.sovereignty_score
    IN  /\ stats.raised = "None"
        /\ n = Len(Tokens)
        /\ s = Cardinality(ShadowTokens)
        /\ 0 <= s /\ s <= n
        /\ score.den > 0
        /\ n > 0 => score.num * n = (n - s) * 100 * score.den
        /\ 0 <= score.num /\ score.num <= 100 * score.den
        /\ n = 0 => score.num = 0
        /\ (n = 10 /\ s = 3) => score.num = 70 * score.den
        /\ text = <<>> => n = 0 /\ score.num = 0

(* A text of ten words, three of them shadows, was analyzed and scores 70 *)
C12_Witness ==
  /\ Analyzed
  /\ stats.total_words = 10 /\ stats.shadow_count = 3
  /\ Cardinality(ShadowTokens) = 3
  /\ stats.sovereignty_score.num = 70 * stats.sovereignty_score.den

(* The words of a list in the order of their first occurrence, each once *)
RECURSIVE DistinctInOrder(_)
DistinctInOrder(list) ==
  IF list = <<>>
    THEN <<>>
    ELSE LET init == DistinctInOrder(SubSeq(list, 1, Len(list) - 1))
             last == list[Len(list)]
         IN  IF last \in Range(init) THEN init ELSE Append(init, last)

(* The tokens of the text whose analysis carries the shadow type, in order *)
TokensOfType(shadow_type) ==
  SelectSeq(Tokens,
            LAMBDA w : has_type(parse_word(w, level, flag_semantic), shadow_type))

DistinctStructural == DistinctInOrder(TokensOfType("STRUCTURAL"))

DistinctSemantic == DistinctInOrder(TokensOfType("SEMANTIC"))

(* The words the section of the report lists *)
ListedWords(section) ==
  {w \in Range(Tokens) : report_line(w, level, flag_semantic) \in section.listed}

(* C13 as stated: generate_report lists the first 10 distinct                 *)
(* structural-shadow words of the document, all of them when there are at     *)
(* most 10, also when a shadow word is repeated in the text; the "N more"     *)
(* note is there only when a distinct structural-shadow word was left out;    *)
(* all distinct semantic-shadow words are listed.                             *)
C13_AsStated ==
  Reported =>
    /\ ListedWords(report.structural) = Range(first_ten(DistinctStructural))
    /\ report.structural.more # None => Len(DistinctStructural) > 10
    /\ ListedWords(report.semantic) = Range(DistinctSemantic)

(* The entries of the VCC table whose prefix the uppercased word starts with, *)
(* followed by at least one character, the next one a letter other than       *)
(* A, E, I, O, U                                                              *)
VccMatches(s) ==
  {i \in DOMAIN VCC_PREFIXES :
     LET p == VCC_PREFIXES[i].key
         u == upper(s)
     IN  /\ Len(u) > Len(p)
         /\ SubSeq(u, 1, Len(p)) = p
         /\ isalpha(u[Len(p) + 1])
         /\ u[Len(p) + 1] \notin {"A", "E", "I", "O", "U"}}

(* C14: at most one VCC-capable prefix satisfies the match condition on a     *)
(* word; the detector reports a shadow exactly when one does, with that       *)
(* prefix, the separator tilde exactly when it is positional and hyphen       *)
(* exactly when it is operational; otherwise it reports no shadow, no prefix  *)
(* and no separator.  The returned record carries the same verdict.           *)
C14_DetectorContract ==
  (Parsed /\ ~IsGreekResult) =>
    LET M == VccMatches(Cleaned)
        d == detect_vcc(Cleaned)
    IN  /\ Cardinality(M) <= 1
        /\ d.is_vcc <=> M # {}
        /\ StructuralTag <=> M # {}
        /\ \A i \in M :
             /\ d.prefix = VCC_PREFIXES[i].key
             /\ VCC_PREFIXES[i].type \in {"positional", "operational"}
             /\ d.separator = "tilde" <=> VCC_PREFIXES[i].type = "positional"
             /\ d.separator = "hyphen" <=> VCC_PREFIXES[i].type = "operational"
             /\ TildeShadow <=> VCC_PREFIXES[i].type = "positional"
        /\ M = {} =>
             /\ d.prefix = None /\ d.separator = "None"
             /\ result.polarity = "Sovereign"

(* The detector fired on a word with the operational prefix and chose the     *)
(* hyphen                                                                     *)
C14_Witness ==
  /\ Parsed /\ StructuralTag
  /\ VccMatches(Cleaned) # {}
  /\ detect_vcc(Cleaned).prefix = <<"U", "N">>
  /\ detect_vcc(Cleaned).separator = "hyphen"

(* The entries of the combined prefix table the uppercased word starts with   *)
(* and is longer than                                                         *)
QualifyingPrefixes(s) ==
  LET u == upper(s)
  IN  {all_prefixes[i] : i \in {j \in DOMAIN all_prefixes :
                                  /\ Len(u) > Len(all_prefixes[j])
                                  /\ SubSeq(u, 1, Len(all_prefixes[j])) = all_prefixes[j]}}

(* C15: the extracted prefix is the longest entry of the union of the two     *)
(* prefix tables that the uppercased word starts with while at least one      *)
(* character is left, and there is none when no entry qualifies; no two       *)
(* qualifying entries have the same length, so the order of equal-length      *)
(* entries does not matter; a one-letter prefix (A or E) is extracted only    *)
(* when no longer entry qualifies.                                            *)
C15_LongestPrefix ==
  (Parsed /\ ~IsGreekResult) =>
    LET Q == QualifyingPrefixes(Cleaned)
        p == ComponentText("prefix")
    IN  /\ p = extract_components(Cleaned).prefix
        /\ Q = {} <=> p = None
        /\ Q # {} => /\ p \in Q
                     /\ \A q \in Q : Len(q) <= Len(p)
                     /\ Len(upper(Cleaned)) > Len(p)
        /\ \A q, r \in Q : Len(q) = Len(r) => q = r
        /\ (Truthy(p) /\ Len(p) = 1) =>
             /\ p \in {<<"A">>, <<"E">>}
             /\ \A q \in Q : Len(q) = 1

(* "understand" was parsed: UN and UNDER both qualify and UNDER is extracted *)
C15_Witness ==
  /\ Parsed /\ word = Understand
  /\ {<<"U","N">>, <<"U","N","D","E","R">>} \subseteq QualifyingPrefixes(Cleaned)
  /\ ComponentText("prefix") = <<"U","N","D","E","R">>

(* The part of the uppercased cleaned word after the extracted prefix *)
Residual ==
  LET p == extract_components(Cleaned).prefix
  IN  IF Truthy(p) THEN slice_from(upper(Cleaned), Len(p)) ELSE upper(Cleaned)

(* The entries of a suffix list that the residual ends with and is longer than *)
SuffixCandidates(list, r) ==
  {s \in Range(list) :
     /\ Len(r) > Len(s)
     /\ SubSeq(r, Len(r) - Len(s) + 1, Len(r)) = s}

FullWordCandidates(r) == SuffixCandidates(keys_of(FULL_WORD_SUFFIXES), r)

StanceCandidates(r) == SuffixCandidates(keys_of(STANCE_SUFFIXES), r)

OperatorCandidates(r) == SuffixCandidates(TRUE_OPERATORS, r)

LongestOf(S) == CHOOSE s \in S : \A t \in S : Len(t) <= Len(s)

(* The suffix of the first of the three tables that has a candidate, the   *)
(* longest candidate of that table                                         *)
SuffixByPriority(r) ==
  IF FullWordCandidates(r) # {} THEN LongestOf(FullWordCandidates(r))
  ELSE IF StanceCandidates(r) # {} THEN LongestOf(StanceCandidates(r))
  ELSE IF OperatorCandidates(r) # {} THEN LongestOf(OperatorCandidates(r))
  ELSE None

(* C16: at most one suffix is stripped from the residual after the prefix;    *)
(* it comes from the first of the tables full-word, stance, operators that    *)
(* has an entry the residual ends with while a non-empty base is left, and    *)
(* is the longest such entry of that table; a later table is consulted only   *)
(* when no earlier one matched; the base left after stripping is not empty.   *)
C16_SuffixPriority ==
  (Parsed /\ ~IsGreekResult) =>
    LET c == extract_components(Cleaned)
        r == Residual
    IN  /\ ComponentText("suffix") = c.suffix
        /\ c.suffix = SuffixByPriority(r)
        /\ Truthy(c.suffix) => /\ c.base # <<>>
                               /\ c.base \o c.suffix = r
                               /\ ComponentText("base") = c.base
        /\ ~Truthy(c.suffix) => c.base = r

(* A residual that ends with a full-word suffix and with an operator was      *)
(* split: the full-word suffix MENT was taken                                 *)
C16_Witness ==
  /\ Parsed /\ ~IsGreekResult
  /\ FullWordCandidates(Residual) # {}
  /\ OperatorCandidates(Residual) # {}
  /\ ComponentText("suffix") = <<"M","E","N","T">>

Observation == <<"o","b","s","e","r","v","a","t","i","o","n">>

(* The positions of the fields whose term list holds the lowercase word *)
FieldsListing(s) ==
  {i \in DOMAIN TECHNICAL_FIELDS : lower(s) \in Range(TECHNICAL_FIELDS[i].terms)}

(* The tag is the field of the first position that lists the word *)
FirstFieldWins ==
  LET F == FieldsListing(Cleaned)
  IN  /\ F = {} => result.field_context = "None"
      /\ F # {} => result.field_context =
                     TECHNICAL_FIELDS[CHOOSE i \in F : \A j \in F : i <= j].field

(* C17 as stated: for a word that is no Greek compound the field tag is the   *)
(* first field in table order that lists the lowercase cleaned word, absent   *)
(* when none does, and no term is listed by more than one field.              *)
C17_AsStated ==
  (Parsed /\ ~IsGreekResult) =>
    /\ FirstFieldWins
    /\ Cardinality(FieldsListing(Cleaned)) <= 1

(* C17 amended: for a word that is no Greek compound the field tag is the     *)
(* first field in table order that lists the lowercase cleaned word, absent   *)
(* when none does; one term of the table, "observation", is listed by two     *)
(* fields, medicine and science, and its tag is medicine, the earlier of the  *)
(* two; every other term is listed by one field.                              *)
C17_FieldLookup ==
  (Parsed /\ ~IsGreekResult) =>
    /\ FirstFieldWins
    /\ \A i, j \in DOMAIN TECHNICAL_FIELDS :
         \A t \in Range(TECHNICAL_FIELDS[i].terms) :
           (i < j /\ t \in Range(TECHNICAL_FIELDS[j].terms)) =>
              /\ t = Observation
              /\ TECHNICAL_FIELDS[i].field = "medicine"
              /\ TECHNICAL_FIELDS[j].field = "science"
    /\ Cardinality(FieldsListing(Cleaned)) > 1 =>
         /\ lower(Cleaned) = Observation
         /\ result.field_context = "medicine"

(* "observation" was parsed: two fields list it and the tag is medicine *)
C17_Witness ==
  /\ Parsed /\ ~IsGreekResult
  /\ lower(Cleaned) = Observation
  /\ Cardinality(FieldsListing(Cleaned)) = 2
  /\ result.field_context = "medicine"

(* The string with every "-", "_" and "~" deleted *)
WithoutSeparators(s) == SelectSeq(s, LAMBDA c : c \notin {"-", "_", "~"})

(* C18 as stated: in Casual, Structural and Ceremonial modes the parsed       *)
(* output with every "-", "_" and "~" deleted equals, case-insensitively,     *)
(* the cleaned word with the same characters deleted: no letter or digit is   *)
(* lost, added or reordered by the splitting, by the shadow alternative or    *)
(* by the Greek compound rendering.                                           *)
C18_AsStated ==
  (Parsed /\ level \in {"CASUAL", "STRUCTURAL", "CEREMONIAL"}) =>
     upper(WithoutSeparators(result.parsed)) = upper(WithoutSeparators(Cleaned))

(* The operators that end in Y *)
OperatorsInY ==
  {<<"L","Y">>, <<"A","R","Y">>, <<"O","R","Y">>, <<"T","R","Y">>,
   <<"F","Y">>, <<"I","F","Y">>}

(* C19: the extractor never returns LY, ARY, ORY, TRY, FY or IFY as the       *)
(* suffix: on every residual on which one of them would match, the stance     *)
(* suffix Y, which is tried before the operators, matches; a residual of      *)
(* more than one character that ends in Y gets a full-word suffix or the      *)
(* suffix Y.                                                                  *)
C19_UnreachableOperators ==
  (Parsed /\ ~IsGreekResult) =>
    LET suffix == ComponentText("suffix")
        r      == Residual
    IN  /\ suffix \notin OperatorsInY
        /\ extract_components(Cleaned).suffix \notin OperatorsInY
        /\ OperatorCandidates(r) \cap OperatorsInY # {} =>
             <<"Y">> \in StanceCandidates(r)
        /\ (Len(r) > 1 /\ r[Len(r)] = "Y") =>
             \/ suffix = <<"Y">>
             \/ suffix \in Range(keys_of(FULL_WORD_SUFFIXES))

(* A residual on which the operators IFY and FY would match was split: the    *)
(* suffix is Y                                                                *)
C19_Witness ==
  /\ Parsed /\ ~IsGreekResult
  /\ {<<"F","Y">>, <<"I","F","Y">>} \subseteq OperatorCandidates(Residual)
  /\ ComponentText("suffix") = <<"Y">>

===========================================================================
